---- MODULE Spec2Model ----
(***************************************************************************)
(* Model of src/src/main.rs: the max-finders largest_i32, largest_char,    *)
(* largest_any and the inline scan of main, the Summary trait with its     *)
(* default method, notify, and the run of main.                            *)
(*                                                                         *)
(* A behaviour is one invocation of one entry point: main itself, or one   *)
(* of the functions called with arguments drawn from bounded sets.         *)
(***************************************************************************)
EXTENDS Integers, Sequences, FiniteSets, TLC

VARIABLES
    entry,       \* the entry point this behaviour invokes
    T,           \* element type of the slice: "i32", "char" or "f64"
    pc,          \* position of the caller (main's line, or call/wait/done)
    fn,          \* the scan in progress or last finished
    fpc,         \* position inside the scan: idle, index0, loop, returned
    list,        \* the slice the scan reads (borrowed from the caller)
    idx,         \* number of elements the for loop has consumed
    largest,     \* the local `largest`
    largestIdx,  \* 1-based index of the element `largest` was copied from
    ret,         \* value returned by the last finished call
    out,         \* lines written to stdout, in order
    item,        \* first entity (main's `tweet`, summarize's self, notify's item)
    item2,       \* notify's second entity
    status,      \* running, done, panicked, rejected (call does not type-check)
    exit_code    \* exit code of the process, -1 while there is none

vars == <<entry, T, pc, fn, fpc, list, idx, largest, largestIdx, ret, out,
          item, item2, status, exit_code>>

\* ---------------------------------------------------------------- bounds

MaxLen == 4
MaxVal == 1

\* ------------------------------------------------------- element types

I32Dom == (0 - MaxVal)..MaxVal
\* a char is its Unicode scalar value: 'a', 'm', 'q', 'y'
CharDom == {97, 109, 113, 121}
NaN == [nan |-> TRUE, v |-> 0]
F64Dom == {[nan |-> FALSE, v |-> n] : n \in I32Dom} \cup {NaN}

Dom(ty) == CASE ty = "i32" -> I32Dom
             [] ty = "char" -> CharDom
             [] ty = "f64" -> F64Dom

\* the character a char prints as
char_str(c) == CASE c = 97 -> "a"
                 [] c = 109 -> "m"
                 [] c = 113 -> "q"
                 [] c = 121 -> "y"

\* `a > b` of PartialOrd for the three element types (f64: false with a NaN)
gt(ty, a, b) == CASE ty = "i32" -> a > b
                  [] ty = "char" -> a > b
                  [] ty = "f64" -> ~a.nan /\ ~b.nan /\ a.v > b.v

\* `a == b` of PartialEq (f64: NaN is not equal to itself)
eq(ty, a, b) == CASE ty = "f64" -> ~a.nan /\ ~b.nan /\ a.v = b.v
                  [] OTHER -> a = b

\* `{}` of Display for the printed element types
Display(ty, v) == CASE ty = "i32" -> ToString(v)
                    [] ty = "char" -> char_str(v)

\* what the slot of a local of type ty holds before its `let` (never read)
Uninit(ty) == CASE ty = "f64" -> [nan |-> FALSE, v |-> 0]
                [] OTHER -> 0

SeqsUpTo(S, n) == UNION {[1..k -> S] : k \in 0..n}

\* ---------------------------------------------------------- max-finders

Panic == [kind |-> "panic", msg |-> "index out of bounds"]
Value(v) == [kind |-> "value", v |-> v]

main_cond_lt(number, lg) == number < lg
\* main, line 13: `if number > largest`
main_cond(number, lg) == number > lg

largest_i32_cond_lt(it, lg) == it < lg
\* largest_i32, line 47: `if item > largest`
largest_i32_cond(it, lg) == it > lg

largest_char_cond_lt(it, lg) == it < lg
\* largest_char, line 60: `if item > largest`
largest_char_cond(it, lg) == it > lg

largest_any_cond_ge(ty, it, lg) == gt(ty, it, lg) \/ eq(ty, it, lg)
largest_any_cond_always(ty, it, lg) == TRUE
\* largest_any, line 76: `if item > largest`, through T's PartialOrd
largest_any_cond(ty, it, lg) == gt(ty, it, lg)

\* the `if` of the scan that is running
replaces(f, ty, it, lg) ==
    CASE f = "main" -> main_cond(it, lg)
      [] f = "largest_i32" -> largest_i32_cond(it, lg)
      [] f = "largest_char" -> largest_char_cond(it, lg)
      [] f = "largest_any" -> largest_any_cond(ty, it, lg)

\* The functions as a whole: `largest` starts as list[0], the for loop visits
\* every element from the first on, the function returns `largest`.
RECURSIVE largest_i32_loop(_, _, _)
largest_i32_loop(l, k, lg) ==
    IF k > Len(l) THEN lg
    ELSE largest_i32_loop(l, k + 1, IF largest_i32_cond(l[k], lg) THEN l[k] ELSE lg)

largest_i32(l) == IF Len(l) = 0 THEN Panic ELSE Value(largest_i32_loop(l, 1, l[1]))

RECURSIVE largest_char_loop(_, _, _)
largest_char_loop(l, k, lg) ==
    IF k > Len(l) THEN lg
    ELSE largest_char_loop(l, k + 1, IF largest_char_cond(l[k], lg) THEN l[k] ELSE lg)

largest_char(l) == IF Len(l) = 0 THEN Panic ELSE Value(largest_char_loop(l, 1, l[1]))

RECURSIVE largest_any_loop(_, _, _, _)
largest_any_loop(ty, l, k, lg) ==
    IF k > Len(l) THEN lg
    ELSE largest_any_loop(ty, l, k + 1,
                          IF largest_any_cond(ty, l[k], lg) THEN l[k] ELSE lg)

largest_any(ty, l) ==
    IF Len(l) = 0 THEN Panic ELSE Value(largest_any_loop(ty, l, 1, l[1]))

\* the inline scan of main, lines 11-16, as a whole
RECURSIVE main_loop(_, _, _)
main_loop(l, k, lg) ==
    IF k > Len(l) THEN lg
    ELSE main_loop(l, k + 1, IF main_cond(l[k], lg) THEN l[k] ELSE lg)

main_largest(l) == IF Len(l) = 0 THEN Panic ELSE Value(main_loop(l, 1, l[1]))

\* main's vectors
number_list_L10 == <<1, 2, 3, 5, 4>>
number_list == <<102, 34, 6000, 89, 54, 2, 43, 8>>
number_list2 == <<1, 2, 3, 6, 5, 8, 4, 7>>
char_list == <<121, 109, 97, 113>>

\* -------------------------------------------------------------- Summary

Usernames == {"horse_ebooks", "rustlang"}
Contents == {"of course, as you probably already know, people"}

Tweets == {[type |-> "Tweet", username |-> u, content |-> c, reply |-> r,
            retweet |-> FALSE] : u \in Usernames, c \in Contents, r \in BOOLEAN}

NewsArticles == {[type |-> "NewsArticle", headline |-> "Penguins win",
                  location |-> "Pittsburgh", author |-> a, content |-> "..."] :
                 a \in {"Iceburgh"}}

NoEntity == [type |-> "none"]

Summary_impls_uncommented ==
    ("Tweet" :> {"summarize_author"}) @@ ("NewsArticle" :> {"summarize"})
\* The impl blocks of Summary and the methods each defines. `impl Summary for
\* Tweet` defines summarize_author; the impl for NewsArticle is commented out.
Summary_impls == ("Tweet" :> {"summarize_author"})

\* T: Summary
Implements(e) == e.type \in DOMAIN Summary_impls

Tweet_summarize_author_bare(self) == self.username
\* impl Summary for Tweet: format!("@{}", self.username)
Tweet_summarize_author(self) == "@" \o self.username

summarize_author(self) == CASE self.type = "Tweet" -> Tweet_summarize_author(self)

\* the default method: format!("(Read more from {}...)", self.summarize_author())
Summary_summarize(self) == "(Read more from " \o summarize_author(self) \o "...)"

\* the commented-out override: format!("{}, by {} ({})", headline, author, location)
NewsArticle_summarize(self) ==
    self.headline \o ", by " \o self.author \o " (" \o self.location \o ")"

\* method resolution: the impl's own summarize if it defines one, else the default
summarize(self) ==
    IF "summarize" \in Summary_impls[self.type]
    THEN NewsArticle_summarize(self)
    ELSE Summary_summarize(self)

main_tweet == [type |-> "Tweet", username |-> "horse_ebooks",
               content |-> "of course, as you probably already know, people",
               reply |-> FALSE, retweet |-> FALSE]

\* ----------------------------------------------------------------- Init

MaxFinders == {"largest_i32", "largest_char", "largest_any"}
Entities == Tweets \cup NewsArticles

\* One invocation: main takes no input; a max-finder is given a slice of its
\* element type (largest_any of any of the three); summarize is given its
\* receiver and notify its two arguments.
Init ==
    /\ entry \in {"main"} \cup MaxFinders \cup {"summarize", "notify"}
    /\ T \in CASE entry = "largest_char" -> {"char"}
               [] entry = "largest_any" -> {"i32", "char", "f64"}
               [] OTHER -> {"i32"}
    /\ list \in IF entry \in MaxFinders THEN SeqsUpTo(Dom(T), MaxLen) ELSE {<<>>}
    /\ item \in IF entry \in {"summarize", "notify"} THEN Entities ELSE {NoEntity}
    /\ item2 \in IF entry = "notify" THEN Entities ELSE {NoEntity}
    /\ pc = IF entry = "main" THEN "L10" ELSE "call"
    /\ fn = "none"
    /\ fpc = "idle"
    /\ idx = 0
    /\ largest = Uninit(T)
    /\ largestIdx = 0
    /\ ret = [kind |-> "none", v |-> Uninit(T)]
    /\ out = <<>>
    /\ status = "running"
    /\ exit_code = -1

\* -------------------------------------------------------- the scan steps

\* A caller outside main calls the max-finder on the slice it holds.
CallLargest ==
    /\ status = "running" /\ pc = "call" /\ entry \in MaxFinders
    /\ fn' = entry
    /\ fpc' = "index0"
    /\ idx' = 0
    /\ pc' = "wait"
    /\ UNCHANGED <<entry, T, list, largest, largestIdx, ret, out, item, item2,
                   status, exit_code>>

\* `let mut largest = list[0];` on a non-empty slice
Index0 ==
    /\ status = "running" /\ fpc = "index0" /\ Len(list) > 0
    /\ largest' = list[1]
    /\ largestIdx' = 1
    /\ fpc' = "loop"
    /\ UNCHANGED <<entry, T, pc, fn, list, idx, ret, out, item, item2, status,
                   exit_code>>

Index0_EmptyInputError ==
    /\ status = "running" /\ fpc = "index0" /\ Len(list) = 0
    /\ ret' = [kind |-> "error", err |-> "EmptyInputError"]
    /\ fpc' = "returned"
    /\ UNCHANGED <<entry, T, pc, fn, list, idx, largest, largestIdx, out, item,
                   item2, status, exit_code>>

\* `list[0]` on an empty slice: the index is out of bounds, the thread panics
\* and nothing is returned; in main the process exits with the panic's code.
Index0Panic ==
    /\ status = "running" /\ fpc = "index0" /\ Len(list) = 0
    /\ status' = "panicked"
    /\ fpc' = "panicked"
    /\ exit_code' = IF entry = "main" THEN 101 ELSE exit_code
    /\ UNCHANGED <<entry, T, pc, fn, list, idx, largest, largestIdx, ret, out,
                   item, item2>>

ScanStep_InPlace ==
    /\ status = "running" /\ fpc = "loop" /\ idx < Len(list)
    /\ idx' = idx + 1
    /\ IF replaces(fn, T, list[idx + 1], largest)
       THEN /\ largest' = list[idx + 1]
            /\ largestIdx' = 1
            /\ list' = [list EXCEPT ![1] = list[idx + 1], ![idx + 1] = list[1]]
       ELSE UNCHANGED <<largest, largestIdx, list>>
    /\ UNCHANGED <<entry, T, pc, fn, fpc, ret, out, item, item2, status,
                   exit_code>>

\* One iteration of the for loop: the next element is bound to item and
\* replaces `largest` when the comparison says so.
ScanStep ==
    /\ status = "running" /\ fpc = "loop" /\ idx < Len(list)
    /\ idx' = idx + 1
    /\ IF replaces(fn, T, list[idx + 1], largest)
       THEN /\ largest' = list[idx + 1]
            /\ largestIdx' = idx + 1
       ELSE UNCHANGED <<largest, largestIdx>>
    /\ UNCHANGED <<entry, T, pc, fn, fpc, list, ret, out, item, item2, status,
                   exit_code>>

\* The loop is over: the function returns `largest`.
Return ==
    /\ status = "running" /\ fpc = "loop" /\ idx = Len(list) /\ fn \in MaxFinders
    /\ ret' = Value(largest)
    /\ fpc' = "returned"
    /\ UNCHANGED <<entry, T, pc, fn, list, idx, largest, largestIdx, out, item,
                   item2, status, exit_code>>

\* The caller outside main has its value.
CallerDone ==
    /\ status = "running" /\ pc = "wait" /\ fpc = "returned"
    /\ pc' = "done"
    /\ status' = "done"
    /\ UNCHANGED <<entry, T, fn, fpc, list, idx, largest, largestIdx, ret, out,
                   item, item2, exit_code>>

\* ----------------------------------------------------- summarize, notify

\* item.summarize() on a receiver whose type implements Summary
CallSummarize ==
    /\ status = "running" /\ pc = "call" /\ entry = "summarize"
    /\ Implements(item)
    /\ ret' = Value(summarize(item))
    /\ pc' = "done"
    /\ status' = "done"
    /\ UNCHANGED <<entry, T, fn, fpc, list, idx, largest, largestIdx, out, item,
                   item2, exit_code>>

notify_item2 ==
    /\ status = "running" /\ pc = "call" /\ entry = "notify"
    /\ item.type = item2.type /\ Implements(item)
    /\ out' = Append(out, "Breaking news! " \o summarize(item2))
    /\ pc' = "done"
    /\ status' = "done"
    /\ UNCHANGED <<entry, T, fn, fpc, list, idx, largest, largestIdx, ret, item,
                   item2, exit_code>>

\* notify<T: Summary>(item: T, item2: T): both arguments of one type T that
\* implements Summary; prints one line from item.summarize().
notify ==
    /\ status = "running" /\ pc = "call" /\ entry = "notify"
    /\ item.type = item2.type /\ Implements(item)
    /\ out' = Append(out, "Breaking news! " \o summarize(item))
    /\ pc' = "done"
    /\ status' = "done"
    /\ UNCHANGED <<entry, T, fn, fpc, list, idx, largest, largestIdx, ret, item,
                   item2, exit_code>>

\* A call whose arguments do not satisfy the bound does not compile: nothing runs.
Reject ==
    /\ status = "running" /\ pc = "call"
    /\ \/ entry = "summarize" /\ ~Implements(item)
       \/ entry = "notify" /\ ~(item.type = item2.type /\ Implements(item))
    /\ status' = "rejected"
    /\ UNCHANGED <<entry, T, pc, fn, fpc, list, idx, largest, largestIdx, ret,
                   out, item, item2, exit_code>>

\* ------------------------------------------------------------------ main

\* println!("Largest number in array is {}", v)
LargestLine(ty, v) == "Largest number in array is " \o Display(ty, v)

\* line 10: let number_list = vec![1, 2, 3, 5, 4]; the scan of lines 11-16 is
\* inline and reads it
Main_L10 ==
    /\ status = "running" /\ pc = "L10"
    /\ list' = number_list_L10
    /\ T' = "i32"
    /\ fn' = "main"
    /\ fpc' = "index0"
    /\ idx' = 0
    /\ pc' = "L12"
    /\ UNCHANGED <<entry, largest, largestIdx, ret, out, item, item2, status,
                   exit_code>>

\* line 17, after the inline loop: print main's `largest`
Main_L17 ==
    /\ status = "running" /\ pc = "L12" /\ fn = "main"
    /\ fpc = "loop" /\ idx = Len(list)
    /\ out' = Append(out, LargestLine(T, largest))
    /\ fpc' = "idle"
    /\ pc' = "L20"
    /\ UNCHANGED <<entry, T, fn, list, idx, largest, largestIdx, ret, item,
                   item2, status, exit_code>>

\* lines 20-22: the three vectors are built
Main_L20 ==
    /\ status = "running" /\ pc = "L20"
    /\ pc' = "L23"
    /\ UNCHANGED <<entry, T, fn, fpc, list, idx, largest, largestIdx, ret, out,
                   item, item2, status, exit_code>>

\* the argument of a println! is evaluated: f(&l) is called
MainCall(at, f, ty, l, then) ==
    /\ status = "running" /\ pc = at
    /\ fn' = f
    /\ T' = ty
    /\ list' = l
    /\ idx' = 0
    /\ fpc' = "index0"
    /\ pc' = then
    /\ UNCHANGED <<entry, largest, largestIdx, ret, out, item, item2, status,
                   exit_code>>

\* the call has returned: the line is printed
MainPrint(at, then) ==
    /\ status = "running" /\ pc = at /\ fpc = "returned"
    /\ out' = Append(out, LargestLine(T, ret.v))
    /\ fpc' = "idle"
    /\ pc' = then
    /\ UNCHANGED <<entry, T, fn, list, idx, largest, largestIdx, ret, item,
                   item2, status, exit_code>>

Main_L23 == MainCall("L23", "largest_i32", "i32", number_list, "L23p")
Main_L23p == MainPrint("L23p", "L24")
Main_L24 == MainCall("L24", "largest_i32", "i32", number_list2, "L24p")
Main_L24p == MainPrint("L24p", "L25")
Main_L25 == MainCall("L25", "largest_char", "char", char_list, "L25p")
Main_L25p == MainPrint("L25p", "L27")

\* lines 27-28: the two Point values are built; nothing reads them
Main_L27 ==
    /\ status = "running" /\ pc = "L27"
    /\ pc' = "L31"
    /\ UNCHANGED <<entry, T, fn, fpc, list, idx, largest, largestIdx, ret, out,
                   item, item2, status, exit_code>>

\* lines 31-36: let tweet = Tweet { ... }
Main_L31 ==
    /\ status = "running" /\ pc = "L31"
    /\ item' = main_tweet
    /\ pc' = "L38"
    /\ UNCHANGED <<entry, T, fn, fpc, list, idx, largest, largestIdx, ret, out,
                   item2, status, exit_code>>

\* line 38: println!("1 new tweet: {}", tweet.summarize())
Main_L38 ==
    /\ status = "running" /\ pc = "L38"
    /\ out' = Append(out, "1 new tweet: " \o summarize(item))
    /\ pc' = "L39"
    /\ UNCHANGED <<entry, T, fn, fpc, list, idx, largest, largestIdx, ret, item,
                   item2, status, exit_code>>

\* line 39: main returns, the process exits with code 0
Main_L39 ==
    /\ status = "running" /\ pc = "L39"
    /\ status' = "done"
    /\ exit_code' = 0
    /\ pc' = "done"
    /\ UNCHANGED <<entry, T, fn, fpc, list, idx, largest, largestIdx, ret, out,
                   item, item2>>

Next ==
    \/ CallLargest
    \/ Index0
    \/ Index0Panic
    \/ ScanStep
    \/ Return
    \/ CallerDone
    \/ CallSummarize
    \/ notify
    \/ Reject
    \/ Main_L10
    \/ Main_L17
    \/ Main_L20
    \/ Main_L23
    \/ Main_L23p
    \/ Main_L24
    \/ Main_L24p
    \/ Main_L25
    \/ Main_L25p
    \/ Main_L27
    \/ Main_L31
    \/ Main_L38
    \/ Main_L39

Spec == Init /\ [][Next]_vars

\* One thread runs the program to its end: a step that can be taken is taken.
FairSpec == Spec /\ WF_vars(Next)

\* ================================================================ claims

\* every pair of elements is ordered one way or equal (no NaN among f64)
Comparable(ty, l) ==
    \A i, j \in 1..Len(l) : eq(ty, l[i], l[j]) \/ gt(ty, l[i], l[j]) \/ gt(ty, l[j], l[i])

RECURSIVE InsertDesc(_, _, _)
InsertDesc(ty, x, s) ==
    IF Len(s) = 0 THEN <<x>>
    ELSE IF gt(ty, Head(s), x) THEN <<Head(s)>> \o InsertDesc(ty, x, Tail(s))
    ELSE <<x>> \o s

RECURSIVE SortDesc(_, _)
SortDesc(ty, l) ==
    IF Len(l) = 0 THEN <<>> ELSE InsertDesc(ty, Head(l), SortDesc(ty, Tail(l)))

PermsOf(l) == {[i \in 1..Len(l) |-> l[p[i]]] : p \in Permutations(1..Len(l))}

Prefix(l, k) == SubSeq(l, 1, k)

IsPrefix(s, t) == Len(s) <= Len(t) /\ s = SubSeq(t, 1, Len(s))

ResultOf(f, ty, l) == CASE f = "largest_i32" -> largest_i32(l)
                        [] f = "largest_char" -> largest_char(l)
                        [] f = "largest_any" -> largest_any(ty, l)

Returned == fn \in MaxFinders /\ fpc = "returned"

\* C1: a max-finder called on a non-empty sequence of comparable elements
\* returns the first element of the sequence sorted in descending order; on a
\* one-element sequence [v] it returns v.
C1_MaxIsSortedDescFirst ==
    (Returned /\ Comparable(T, list)) =>
        /\ ret = Value(SortDesc(T, list)[1])
        /\ (Len(list) = 1 => ret = Value(list[1]))

C1_Witness ==
    /\ Returned /\ Comparable(T, list) /\ Len(list) >= 3
    /\ ret.v # list[1] /\ ret.v # list[Len(list)]

\* C2 as claimed: a max-finder called on an empty sequence hands its caller
\* the error value EmptyInputError and does not panic.
C2_EmptyInputError ==
    (fn \in MaxFinders /\ Len(list) = 0 /\ fpc \notin {"idle", "index0"}) =>
        /\ status # "panicked"
        /\ ret = [kind |-> "error", err |-> "EmptyInputError"]

\* C2 as amended: a max-finder called on an empty sequence panics at list[0]
\* before any element is scanned and returns nothing; no error value exists,
\* and this panic is the only failure of any operation.
C2_EmptyInputPanics ==
    /\ (fn \in MaxFinders /\ Len(list) = 0 /\ fpc \notin {"idle", "index0"}) =>
           (status = "panicked" /\ fpc = "panicked" /\ idx = 0 /\ ret.kind = "none")
    /\ status = "panicked" => (fpc = "panicked" /\ Len(list) = 0)
    /\ ret.kind \in {"none", "value"}

C2_Witness == status = "panicked" /\ entry \in MaxFinders /\ Len(list) = 0

\* C3: the scan starts from element 0 and replaces the running value only by
\* a strictly greater element, so the running value is always copied from the
\* smallest index holding that value, and of several maxima the first is
\* the one returned.
C3_TieKeepsFirst ==
    (fn # "none" /\ fpc \in {"loop", "returned"}) =>
        /\ largest = list[largestIdx]
        /\ largestIdx <= (IF idx = 0 THEN 1 ELSE idx)
        /\ idx = 0 => largestIdx = 1
        /\ \A j \in 1..(largestIdx - 1) : list[j] # largest
        /\ (fpc = "returned" /\ Comparable(T, list)) =>
               /\ ret = Value(list[largestIdx])
               /\ \A j \in 1..Len(list) : ~gt(T, list[j], ret.v)

C3_Witness ==
    /\ Returned /\ Comparable(T, list)
    /\ largestIdx = 2
    /\ \E j \in (largestIdx + 1)..Len(list) : list[j] = ret.v

\* C4 as claimed: for every ordering the bound admits, total or partial,
\* largest_any returns the same value on every permutation of its input.
C4_PermutationInvariant ==
    (fn = "largest_any" /\ fpc = "returned") =>
        \A P \in PermsOf(list) : largest_any(T, P) = ret

\* C4 as amended: when the elements are pairwise comparable (a total order),
\* largest_any returns the same value on every permutation of its input.
C4_PermutationInvariantTotal ==
    (fn = "largest_any" /\ fpc = "returned" /\ Comparable(T, list)) =>
        \A P \in PermsOf(list) : largest_any(T, P) = ret

C4_Witness ==
    /\ fn = "largest_any" /\ fpc = "returned" /\ Comparable(T, list)
    /\ Len(list) >= 3
    /\ \E P \in PermsOf(list) : P # list /\ P[1] = ret.v /\ list[1] # ret.v

\* C5: summarize() of an entity that implements only summarize_author is
\* "(Read more from " + summarize_author() + "...)"; a Tweet's author is
\* "@" + username, so for horse_ebooks it is "(Read more from @horse_ebooks...)".
C5_DefaultSummarize ==
    (entry = "summarize" /\ status = "done") =>
        /\ ret = Value("(Read more from " \o summarize_author(item) \o "...)")
        /\ ret = Value("(Read more from @" \o item.username \o "...)")
        /\ item.username = "horse_ebooks" =>
               ret.v = "(Read more from @horse_ebooks...)"

C5_Witness ==
    /\ entry = "summarize" /\ status = "done"
    /\ item.username = "horse_ebooks"
    /\ ret.v = "(Read more from @horse_ebooks...)"

C7_Notify ==
    [][entry = "notify" =>
         /\ item' = item
         /\ item2' = item2
         /\ status' = "done" =>
                /\ item.type = "Tweet" /\ item2.type = "Tweet"
                /\ out' = <<"Breaking news! (Read more from @" \o item.username
                              \o "...)">>]_vars

C7_Witness ==
    /\ entry = "notify" /\ status = "done" /\ Len(out) = 1
    /\ item2.username # item.username

MainOutput == <<"Largest number in array is 5",
                "Largest number in array is 6000",
                "Largest number in array is 8",
                "Largest number in array is y",
                "1 new tweet: (Read more from @horse_ebooks...)">>

\* C8: every run of main indexes only non-empty sequences at position 0,
\* never panics, prints the lines of MainOutput in order and nothing else,
\* and terminates with exit code 0.
C8_MainRun ==
    /\ [](entry = "main" =>
            /\ status # "panicked"
            /\ fpc = "index0" => Len(list) > 0
            /\ IsPrefix(out, MainOutput)
            /\ status = "done" => (out = MainOutput /\ exit_code = 0))
    /\ (entry = "main") ~> (status = "done" /\ exit_code = 0 /\ out = MainOutput)

C8_Witness ==
    entry = "main" /\ status = "done" /\ exit_code = 0 /\ out = MainOutput

\* C9: while a max-finder runs, its input sequence and everything outside
\* the running value and the scan position stay as they were, and the value
\* it returns is a function of the input alone.
C9_Pure ==
    [][(fn \in MaxFinders /\ fpc \in {"index0", "loop"}) =>
         /\ list' = list
         /\ UNCHANGED <<entry, T, pc, fn, out, item, item2>>
         /\ fpc' # "panicked" => UNCHANGED <<status, exit_code>>
         /\ fpc' = "returned" => ret' = ResultOf(fn, T, list)
         /\ fpc' # "returned" => ret' = ret]_vars

C9_Witness ==
    /\ Returned /\ Len(list) >= 2 /\ largestIdx = Len(list)
    /\ ret = ResultOf(fn, T, list)

\* C10: after every processed prefix the running value of any of the scans
\* is what each of the other implementations computes on that prefix, and it
\* is an element of the prefix.
C10_Equivalent ==
    (fn # "none" /\ fpc \in {"loop", "returned"}) =>
        LET k == IF idx = 0 THEN 1 ELSE idx
            p == Prefix(list, k)
        IN /\ T = "i32" => /\ Value(largest) = largest_i32(p)
                           /\ Value(largest) = largest_any("i32", p)
                           /\ Value(largest) = main_largest(p)
           /\ T = "char" => /\ Value(largest) = largest_char(p)
                            /\ Value(largest) = largest_any("char", p)
           /\ \E j \in 1..k : list[j] = largest
           /\ fpc = "returned" => (k = Len(list) /\ ret = Value(largest))

C10_Witness ==
    /\ fn = "largest_any" /\ T = "i32" /\ fpc = "loop"
    /\ idx = 2 /\ idx < Len(list) /\ largestIdx = 2

====
